---- MODULE Spec2Model ----
(***************************************************************************)
(* Model of preprod_migration.py: a one-shot sequencer that dumps the      *)
(* public schema of the source database with pg_dump, saves the text to    *)
(* preprod_schema_export.sql, asks for confirmation and feeds the file to  *)
(* psql against the target database.                                       *)
(*                                                                         *)
(* Text is a sequence of one-character strings, so that lower(), slicing   *)
(* and newline translation are computed character by character.  The       *)
(* external tools are the environment: their exit status and their output  *)
(* are chosen nondeterministically from bounded sets.  The tools are       *)
(* assumed to be on the path and standard input to deliver a line, as the  *)
(* script itself assumes (it handles no exception).                        *)
(***************************************************************************)
EXTENDS Integers, Sequences, FiniteSets, TLC

VARIABLES
    pc,            \* position of the run in the script
    caller,        \* "main", or "direct" when pg_dump_schema is called on its own
    tables,        \* pg_dump_schema's parameter tables
    include_data,  \* pg_dump_schema's parameter include_data
    dump,          \* the dump invocation: command, exit status, captured stdout
    schema_sql,    \* main's local schema_sql
    file,          \* preprod_schema_export.sql on disk
    confirm,       \* main's local confirm, the line read at the prompt
    result,        \* main's local result, the completed apply invocation
    procs,         \* every subprocess started so far, in order
    applied,       \* every script executed against a database, in order
    out,           \* the lines printed so far
    events         \* the steps taken so far, in order

vars == << pc, caller, tables, include_data, dump, schema_sql, file, confirm,
           result, procs, applied, out, events >>

-----------------------------------------------------------------------------
(* Bounds of the model *)

MaxOut == 1          \* longest standard output of the dump tool
MaxConfirmLen == 3   \* longest line typed at the prompt, spaces around yes apart
MaxTables == 2       \* longest tables argument of a direct pg_dump_schema call
MaxOver == 2         \* how far standard error may exceed the excerpt limit

-----------------------------------------------------------------------------
(* Configuration constants of the script *)

SOURCE_HOST == "aws-1-ap-southeast-1.pooler.supabase.com"
SOURCE_PORT == "5432"
SOURCE_USER == "postgres.bamybvzufxijghzqdytu"
SOURCE_DB == "postgres"

TARGET_HOST == "aws-1-ap-southeast-1.pooler.supabase.com"
TARGET_PORT == "5432"
TARGET_USER == "postgres.jqihlckqrhdxszgwuymu"
TARGET_DB == "postgres"

PASSWORD == "Turun_2020-"

REQUIRED_TABLES ==
    << "roles", "users", "organization_types", "organizations", "regions", 
       "states", "districts", "brands", "product_categories", 
       "product_groups", "product_subgroups", "products", "product_variants", 
       "product_attributes", "product_images", "product_pricing", 
       "product_inventory", "product_skus", "orders", "order_items", 
       "payment_terms", "qr_batches", "qr_codes", "qr_master_codes", 
       "qr_movements", "qr_prepared_codes", "qr_reverse_jobs", 
       "qr_reverse_job_items", "qr_reverse_job_logs", "qr_secret_codes", 
       "qr_validation_reports", "documents", "document_files", 
       "document_signatures", "doc_counters", "stock_movements", 
       "stock_transfers", "stock_adjustments", "stock_adjustment_items", 
       "stock_adjustment_reasons", "stock_adjustment_manufacturer_actions", 
       "wms_movement_dedup", "distributor_products", "shop_distributors", 
       "journey_configurations", "journey_order_links", 
       "lucky_draw_campaigns", "lucky_draw_entries", "lucky_draw_order_links", 
       "scratch_card_campaigns", "scratch_card_rewards", "scratch_card_plays", 
       "spin_wheel_campaigns", "spin_wheel_rewards", "spin_wheel_plays", 
       "daily_quiz_campaigns", "daily_quiz_questions", "daily_quiz_plays", 
       "points_rules", "points_transactions", "point_rewards", 
       "consumer_activations", "consumer_feedback", "consumer_qr_scans", 
       "redeem_items", "redeem_gifts", "redeem_gift_transactions", 
       "redemption_policies", "redemption_orders", "redemption_order_limits", 
       "redemption_gifts", "notification_types", "notification_settings", 
       "notification_provider_configs", "notification_logs", 
       "notifications_outbox", "org_notification_settings", 
       "message_templates", "email_send_log", "otp_challenges", "audit_logs" >>
EXCLUDED_TABLES == << >>

OUTPUT_FILE == "preprod_schema_export.sql"

ExcerptLimit == 2000

-----------------------------------------------------------------------------
(* Text helpers *)

Min(a, b) == IF a <= b THEN a ELSE b

SeqsUpTo(S, n) == UNION { [1..k -> S] : k \in 0..n }

\* str.lower() on the characters a confirmation line is drawn from
LowerChar(c) ==
    CASE c = "Y" -> "y"
      [] c = "E" -> "e"
      [] c = "S" -> "s"
      [] c = "N" -> "n"
      [] c = "O" -> "o"
      [] OTHER -> c

Lower(s) == [i \in 1..Len(s) |-> LowerChar(s[i])]

\* s[:n]
Slice(s, n) == SubSeq(s, 1, Min(Len(s), n))

\* text=True decoding of a captured stream: "\r\n" and "\r" become "\n"
RECURSIVE UniversalNewlines(_)
UniversalNewlines(s) ==
    IF s = << >> THEN << >>
    ELSE IF Head(s) = "\r"
         THEN IF Len(s) > 1 /\ s[2] = "\n"
              THEN << "\n" >> \o UniversalNewlines(Tail(Tail(s)))
              ELSE << "\n" >> \o UniversalNewlines(Tail(s))
         ELSE << Head(s) >> \o UniversalNewlines(Tail(s))

\* os.linesep of the platform the script is written for (POSIX)
LINESEP == << "\n" >>

\* what a text-mode file opened with open(name, 'w') stores for write(s)
RECURSIVE WriteText(_)
WriteText(s) ==
    IF s = << >> THEN << >>
    ELSE (IF Head(s) = "\n" THEN LINESEP ELSE << Head(s) >>) \o WriteText(Tail(s))

-----------------------------------------------------------------------------
(* Printed lines *)

Text(t) == [text |-> t, n |-> 0, chars |-> << >>]
ExportedLine(n) == [text |-> "Schema exported to preprod_schema_export.sql ({} bytes)",
                    n |-> n, chars |-> << >>]
CharsLine(s) == [text |-> "{}", n |-> 0, chars |-> s]

Banner == "============================================================"

FinalLines ==
    << Text("\n[Step 3] Migration complete!"),
       Text("\nNext steps:"),
       Text("1. Migrate admin user manually"),
       Text("2. Update preprod environment variables"),
       Text("3. Test login functionality") >>

-----------------------------------------------------------------------------
(* Arguments and commands *)

NoneArg == [isNone |-> TRUE, items |-> << >>]
ListArg(l) == [isNone |-> FALSE, items |-> l]

\* truth value of a tables argument: None and the empty list are false
Truthy(t) == ~t.isNone /\ Len(t.items) > 0

\* variant of MainTables: main passes the table list to pg_dump_schema
MainTablesRequired == ListArg(REQUIRED_TABLES)

\* the arguments main passes to pg_dump_schema: none, so the defaults
MainTables == NoneArg
MainIncludeData == FALSE

\* the -t pairs the loop over tables appends, one pair per table in list order
TableArgs(l) ==
    [i \in 1..(2 * Len(l)) |->
        IF i % 2 = 1 THEN "-t" ELSE "public." \o l[i \div 2]]

PgDumpCmd(t, inc) ==
    << "pg_dump",
       "-h", SOURCE_HOST,
       "-p", SOURCE_PORT,
       "-U", SOURCE_USER,
       "-d", SOURCE_DB,
       "--no-owner",
       "--no-acl",
       "-n", "public" >>
    \o (IF ~inc THEN << "--schema-only" >> ELSE << >>)
    \o (IF Truthy(t) THEN TableArgs(t.items) ELSE << >>)

PsqlFileCmd(host, user, db, filename) ==
    << "psql",
       "-h", host,
       "-p", "5432",
       "-U", user,
       "-d", db,
       "-f", filename >>

\* the environment handed to a child process, as far as the script sets it
ChildEnv == [PGPASSWORD |-> PASSWORD]

\* the value following option opt in command cmd, or "" when opt is absent
OptValue(cmd, opt) ==
    IF \E i \in 1..(Len(cmd) - 1) : cmd[i] = opt
    THEN cmd[(CHOOSE i \in 1..(Len(cmd) - 1) :
                 cmd[i] = opt /\ \A j \in 1..(i - 1) : cmd[j] # opt) + 1]
    ELSE ""

-----------------------------------------------------------------------------
(* Inputs from the environment *)

StdoutChars == {"s", "\r", "\n"}
DumpOutputs == SeqsUpTo(StdoutChars, MaxOut)
DumpExitCodes == {0, 1}

ConfirmChars == {"y", "Y", "e", "E", "s", "S", "n", "o", " "}
\* every line of up to MaxConfirmLen characters, and every spelling of yes
\* with a space before it, after it or both
ConfirmWords == SeqsUpTo(ConfirmChars, MaxConfirmLen)
YesSpellings ==
    { << a, b, c >> : a \in {"y", "Y"}, b \in {"e", "E"}, c \in {"s", "S"} }
ConfirmLines ==
    ConfirmWords \cup { << " " >> \o w : w \in YesSpellings }
                 \cup { w \o << " " >> : w \in YesSpellings }
                 \cup { << " " >> \o w \o << " " >> : w \in YesSpellings }

ApplyExitCodes == {0, 1, 3}
StderrText(n) == [i \in 1..n |-> IF i % 3 = 1 THEN "E" ELSE IF i % 3 = 2 THEN "R" ELSE ":"]
StderrLens == {0, 1, ExcerptLimit - 1, ExcerptLimit, ExcerptLimit + 1,
               ExcerptLimit + MaxOver}
ApplyStderrs == { StderrText(n) : n \in StderrLens }

TableNames == {"users", "roles"}
DirectTables ==
    {NoneArg, ListArg(REQUIRED_TABLES), ListArg(EXCLUDED_TABLES)}
        \cup { ListArg(l) : l \in SeqsUpTo(TableNames, MaxTables) }

-----------------------------------------------------------------------------
(* Initial states *)

NoDump == [cmd |-> << >>, returncode |-> 0, stdout |-> << >>]
NoResult == [returncode |-> 0, stderr |-> << >>]
NoFile == [exists |-> FALSE, content |-> << >>]

InitRest ==
    /\ dump = NoDump
    /\ schema_sql = << >>
    /\ file \in {NoFile} \cup { [exists |-> TRUE, content |-> c] : c \in {<< >>, << "o", "l", "d" >>} }
    /\ confirm = << >>
    /\ result = NoResult
    /\ procs = << >>
    /\ applied = << >>
    /\ out = << >>
    /\ events = << >>

\* the script is run
Init ==
    /\ pc = "main"
    /\ caller = "main"
    /\ tables = NoneArg
    /\ include_data = FALSE
    /\ InitRest

\* the script is run, or pg_dump_schema is called on its own with any arguments
FnInit ==
    \/ Init
    \/ /\ pc = "pg_dump_schema"
       /\ caller = "direct"
       /\ tables \in DirectTables
       /\ include_data \in BOOLEAN
       /\ InitRest

-----------------------------------------------------------------------------
(* Steps *)

\* main: the banner, the step 1 message and the call of pg_dump_schema
MainBegin ==
    /\ pc = "main"
    /\ out' = out \o << Text(Banner), Text("PREPROD DATABASE MIGRATION"), Text(Banner),
                        Text("\n[Step 1] Exporting schema from source database...") >>
    /\ tables' = MainTables
    /\ include_data' = MainIncludeData
    /\ pc' = "pg_dump_schema"
    /\ UNCHANGED << caller, dump, schema_sql, file, confirm, result, procs, applied, events >>

\* variant of DumpReturn: a non-zero exit status of the dump tool ends the run
DumpReturnChecked(c, rc) ==
    IF rc # 0 THEN "failed" ELSE IF c = "main" THEN "save" ELSE "returned"

\* where pg_dump_schema returns to
DumpReturn(c, rc) == IF c = "main" THEN "save" ELSE "returned"

\* pg_dump_schema: build the command, run it, return its standard output
PgDumpSchema ==
    /\ pc = "pg_dump_schema"
    /\ \E rc \in DumpExitCodes, raw \in DumpOutputs :
          LET cmd == PgDumpCmd(tables, include_data) IN
          /\ dump' = [cmd |-> cmd, returncode |-> rc, stdout |-> UniversalNewlines(raw)]
          /\ procs' = Append(procs, [cmd |-> cmd, env |-> ChildEnv])
          /\ pc' = DumpReturn(caller, rc)
    /\ events' = Append(events, "dump")
    /\ UNCHANGED << caller, tables, include_data, schema_sql, file, confirm, result,
                    applied, out >>

\* variant of FileText: the text is written as a line, with a line end added
FileTextAsLine(s) == WriteText(s) \o LINESEP

\* what main writes to the output file
FileText(s) == WriteText(s)

\* main: keep the returned text, write it to the file, announce step 2
SaveSchema ==
    /\ pc = "save"
    /\ schema_sql' = dump.stdout
    /\ file' = [exists |-> TRUE, content |-> FileText(dump.stdout)]
    /\ out' = out \o << ExportedLine(Len(dump.stdout)),
                        Text("\n[Step 2] This will apply schema to target database."),
                        Text("Target: " \o TARGET_HOST \o " / " \o TARGET_USER) >>
    /\ events' = Append(events, "write")
    /\ pc' = "confirm"
    /\ UNCHANGED << caller, tables, include_data, dump, confirm, result, procs, applied >>

\* variant of Accepts: any line that starts with y or Y is taken as consent
AcceptsInitial(line) == Len(line) > 0 /\ LowerChar(line[1]) = "y"

\* the test of the confirmation gate
Accepts(line) == Lower(line) = << "y", "e", "s" >>

\* variant of Confirm: a declined confirmation removes the exported file
ConfirmRemovesFile ==
    /\ pc = "confirm"
    /\ \E line \in ConfirmLines :
          /\ confirm' = line
          /\ IF ~Accepts(line)
             THEN /\ out' = Append(out, Text("Aborted."))
                  /\ file' = [exists |-> FALSE, content |-> << >>]
                  /\ pc' = "aborted"
             ELSE /\ out' = out
                  /\ file' = file
                  /\ pc' = "apply"
    /\ events' = Append(events, "prompt")
    /\ UNCHANGED << caller, tables, include_data, dump, schema_sql, result,
                    procs, applied >>

\* main: read one line at the prompt; anything but yes aborts
Confirm ==
    /\ pc = "confirm"
    /\ \E line \in ConfirmLines :
          /\ confirm' = line
          /\ IF ~Accepts(line)
             THEN /\ out' = Append(out, Text("Aborted."))
                  /\ pc' = "aborted"
             ELSE /\ out' = out
                  /\ pc' = "apply"
    /\ events' = Append(events, "prompt")
    /\ UNCHANGED << caller, tables, include_data, dump, schema_sql, file, result,
                    procs, applied >>

\* variant of ApplyArgs: the file is applied to the source connection
ApplyArgsSource == [host |-> SOURCE_HOST, user |-> SOURCE_USER, db |-> SOURCE_DB,
                    filename |-> OUTPUT_FILE]

\* the connection and file main hands to run_psql_file
ApplyArgs == [host |-> TARGET_HOST, user |-> TARGET_USER, db |-> TARGET_DB,
              filename |-> OUTPUT_FILE]

\* main calls run_psql_file: psql executes the file against the connection given
RunPsqlFile ==
    /\ pc = "apply"
    /\ \E rc \in ApplyExitCodes, err \in ApplyStderrs :
          LET a == ApplyArgs
              cmd == PsqlFileCmd(a.host, a.user, a.db, a.filename) IN
          /\ result' = [returncode |-> rc, stderr |-> err]
          /\ procs' = Append(procs, [cmd |-> cmd, env |-> ChildEnv])
          /\ applied' = Append(applied,
                 [host |-> OptValue(cmd, "-h"), port |-> OptValue(cmd, "-p"),
                  user |-> OptValue(cmd, "-U"), db |-> OptValue(cmd, "-d"),
                  filename |-> OptValue(cmd, "-f"),
                  script |-> IF OptValue(cmd, "-f") = OUTPUT_FILE /\ file.exists
                             THEN file.content ELSE << >>])
    /\ events' = Append(events, "apply")
    /\ pc' = "report"
    /\ UNCHANGED << caller, tables, include_data, dump, schema_sql, file, confirm, out >>

\* variant of Excerpt: the slice keeps one character too many
ExcerptOneMore(err) == IF err # << >> THEN CharsLine(Slice(err, ExcerptLimit + 1))
                       ELSE Text("No error output")

\* the excerpt of standard error printed after a failed apply
Excerpt(err) == IF err # << >> THEN CharsLine(Slice(err, ExcerptLimit))
                ELSE Text("No error output")

\* variant of AfterReport: a failed apply ends the run before the final messages
AfterReportExits(rc) == IF rc = 0 THEN "final" ELSE "exit"

\* variant of AfterReport: a failed apply is tried again
AfterReportRetries(rc) == IF rc = 0 THEN "final" ELSE "apply"

\* where the run goes after the report of the apply step
AfterReport(rc) == "final"

\* main: report the exit status of the apply step
Report ==
    /\ pc = "report"
    /\ IF result.returncode = 0
       THEN out' = Append(out, Text("Schema applied successfully!"))
       ELSE out' = out \o << Text("Schema application had issues:"), Excerpt(result.stderr) >>
    /\ pc' = AfterReport(result.returncode)
    /\ UNCHANGED << caller, tables, include_data, dump, schema_sql, file, confirm,
                    result, procs, applied, events >>

\* variant of Finish: the exported file is removed at the end of the run
FinishRemovesFile ==
    /\ pc = "final"
    /\ out' = out \o FinalLines
    /\ file' = [exists |-> FALSE, content |-> << >>]
    /\ pc' = "done"
    /\ UNCHANGED << caller, tables, include_data, dump, schema_sql, confirm,
                    result, procs, applied, events >>

\* main: the closing messages
Finish ==
    /\ pc = "final"
    /\ out' = out \o FinalLines
    /\ pc' = "done"
    /\ UNCHANGED << caller, tables, include_data, dump, schema_sql, file, confirm,
                    result, procs, applied, events >>

Next ==
    \/ MainBegin
    \/ PgDumpSchema
    \/ SaveSchema
    \/ Confirm
    \/ RunPsqlFile
    \/ Report
    \/ Finish

Spec == Init /\ [][Next]_vars

\* the script runs on one thread and every call it makes returns
LiveSpec == Spec /\ WF_vars(Next)

FnSpec == FnInit /\ [][Next]_vars

-----------------------------------------------------------------------------
(* Vocabulary of the properties *)

Range(s) == { s[i] : i \in 1..Len(s) }

\* the lines that are "yes" up to the case of each letter
YesLines ==
    { << a, b, c >> : a \in {"y", "Y"}, b \in {"e", "E"}, c \in {"s", "S"} }

Invocations(tool) == Cardinality({ i \in 1..Len(procs) : procs[i].cmd[1] = tool })

EndsWith(s, t) ==
    /\ Len(t) <= Len(s)
    /\ SubSeq(s, Len(s) - Len(t) + 1, Len(s)) = t

IsPrefix(p, s) ==
    /\ Len(p) <= Len(s)
    /\ \A i \in 1..Len(p) : p[i] = s[i]

Printed(t) == \E i \in 1..Len(out) : out[i].text = t

\* the values that follow each -t of a command, in order
TValues(cmd) ==
    LET P == { i \in 1..(Len(cmd) - 1) : cmd[i] = "-t" } IN
    [k \in 1..Cardinality(P) |->
        cmd[(CHOOSE i \in P : Cardinality({ j \in P : j < i }) = k - 1) + 1]]

Exported == pc \in {"confirm", "aborted", "apply", "report", "final", "done"}
Prompted == pc \in {"aborted", "apply", "report", "final", "done"}
ApplyReturned == pc \in {"report", "final", "done"}

\* the lines printed by the report of the apply step
ReportLines ==
    SubSeq(out, 8, Len(out) - (IF pc = "done" THEN Len(FinalLines) ELSE 0))

-----------------------------------------------------------------------------
(* C1: the apply step is invoked if and only if the line read at the prompt,  *)
(* lower-cased, is exactly "yes"; every other line prints "Aborted." as the   *)
(* last output and ends the run with no apply invocation.                     *)
C1_ConfirmGate ==
    /\ Invocations("psql") > 0 => confirm \in YesLines
    /\ ~Prompted => Invocations("psql") = 0
    /\ Prompted /\ confirm \in YesLines =>
          /\ pc \in {"apply", "report", "final", "done"}
          /\ pc = "apply" => ENABLED RunPsqlFile
          /\ pc # "apply" => Invocations("psql") = 1
          /\ ~Printed("Aborted.")
    /\ Prompted /\ confirm \notin YesLines =>
          /\ pc = "aborted"
          /\ out[Len(out)] = Text("Aborted.")
          /\ Invocations("psql") = 0
          /\ applied = << >>
          /\ ~ENABLED Next

C1_Witness ==
    /\ pc = "aborted"
    /\ confirm = << "y", "e", "s", " " >>

-----------------------------------------------------------------------------
-----------------------------------------------------------------------------
(* C3: once the user has confirmed, the run reaches the final messages        *)
(* whatever the exit status of the apply invocation: exactly one apply        *)
(* invocation was made, and after a non-zero status the issue report comes    *)
(* right before the final messages.                                           *)
C3_Completed ==
    /\ pc = "done"
    /\ EndsWith(out, FinalLines)
    /\ Invocations("psql") = 1
    /\ result.returncode # 0 =>
          out[Len(out) - Len(FinalLines) - 1] = Text("Schema application had issues:")

\* C3: from the confirmed state the run leads to the completed state above
C3_ReachesFinal == (pc = "apply") ~> C3_Completed

C3_Witness ==
    /\ C3_Completed
    /\ result.returncode # 0

-----------------------------------------------------------------------------
(* C4: the dump command of main carries no -t filter and -n public, whatever  *)
(* REQUIRED_TABLES holds; pg_dump_schema adds one -t public.<table> pair per  *)
(* table, in list order, only for a non-empty tables argument.                *)
C4_NoTableFilter ==
    /\ caller = "main" /\ pc # "main" => tables = NoneArg
    /\ "dump" \in Range(events) =>
          /\ OptValue(dump.cmd, "-n") = "public"
          /\ caller = "main" =>
                /\ "-t" \notin Range(dump.cmd)
                /\ dump.cmd = << "pg_dump", "-h", SOURCE_HOST, "-p", SOURCE_PORT,
                                 "-U", SOURCE_USER, "-d", SOURCE_DB, "--no-owner",
                                 "--no-acl", "-n", "public", "--schema-only" >>
          /\ tables.isNone \/ tables.items = << >> => "-t" \notin Range(dump.cmd)
          /\ LET tv == TValues(dump.cmd) IN
                /\ Len(tv) = Len(tables.items)
                /\ \A i \in 1..Len(tables.items) :
                      tv[i] = "public." \o tables.items[i]
          /\ Cardinality({ i \in 1..Len(dump.cmd) : dump.cmd[i] = "-t" })
                = Len(tables.items)

C4_Witness ==
    /\ caller = "main"
    /\ pc = "save"
    /\ "-t" \notin Range(dump.cmd)
    /\ OptValue(dump.cmd, "-n") = "public"

-----------------------------------------------------------------------------
(* C5: a failure of the export step is never detected: for every exit status  *)
(* and output of the dump tool the file is written, the prompt is shown, and  *)
(* a "yes" applies that file.                                                 *)
C5_DumpFailureIgnored ==
    /\ events = << "dump" >> => pc = "save" /\ ENABLED SaveSchema
    /\ events = << "dump", "write" >> =>
          /\ pc = "confirm"
          /\ ENABLED Confirm
          /\ file = [exists |-> TRUE, content |-> dump.stdout]
    /\ Prompted /\ confirm \in YesLines /\ pc = "apply" => ENABLED RunPsqlFile
    /\ ApplyReturned =>
          /\ Len(applied) = 1
          /\ applied[1].filename = OUTPUT_FILE
          /\ applied[1].script = dump.stdout
    /\ pc \in {"main", "pg_dump_schema", "save", "confirm", "aborted", "apply",
               "report", "final", "done"}

C5_Witness ==
    /\ pc = "done"
    /\ dump.returncode # 0
    /\ dump.stdout = << >>
    /\ Len(applied) = 1
    /\ applied[1].script = << >>

-----------------------------------------------------------------------------
-----------------------------------------------------------------------------
(* C7 as stated: the dump command carries the source connection, the apply    *)
(* command carries the target connection, and the apply tool is never invoked *)
(* with the source user or the source database.                               *)
DumpsFromSource ==
    \A i \in 1..Len(procs) :
        procs[i].cmd[1] = "pg_dump" =>
            /\ OptValue(procs[i].cmd, "-h") = SOURCE_HOST
            /\ OptValue(procs[i].cmd, "-p") = SOURCE_PORT
            /\ OptValue(procs[i].cmd, "-U") = SOURCE_USER
            /\ OptValue(procs[i].cmd, "-d") = SOURCE_DB

AppliesToTarget ==
    /\ \A i \in 1..Len(procs) :
          procs[i].cmd[1] = "psql" =>
              /\ OptValue(procs[i].cmd, "-h") = TARGET_HOST
              /\ OptValue(procs[i].cmd, "-U") = TARGET_USER
              /\ OptValue(procs[i].cmd, "-d") = TARGET_DB
    /\ \A i \in 1..Len(applied) :
          /\ applied[i].host = TARGET_HOST
          /\ applied[i].user = TARGET_USER
          /\ applied[i].db = TARGET_DB

C7_Original ==
    /\ DumpsFromSource
    /\ AppliesToTarget
    /\ \A i \in 1..Len(procs) :
          procs[i].cmd[1] = "psql" =>
              /\ OptValue(procs[i].cmd, "-U") # SOURCE_USER
              /\ OptValue(procs[i].cmd, "-d") # SOURCE_DB

(* C7 as amended: the dump command carries the source connection, the apply   *)
(* command carries the target connection, and the apply tool is never invoked *)
(* with the source user; the user is the only argument that differs, the      *)
(* target's host and database name being the same strings as the source's.    *)
C7_SourceToTarget ==
    /\ DumpsFromSource
    /\ AppliesToTarget
    /\ \A i \in 1..Len(procs) :
          procs[i].cmd[1] = "psql" =>
              /\ OptValue(procs[i].cmd, "-U") # SOURCE_USER
              /\ OptValue(procs[i].cmd, "-d") = SOURCE_DB
              /\ OptValue(procs[i].cmd, "-h") = SOURCE_HOST
    /\ \A i \in 1..Len(applied) : applied[i].user # SOURCE_USER

C7_Witness ==
    /\ pc = "report"
    /\ Len(procs) = 2
    /\ Len(applied) = 1
    /\ applied[1].user = TARGET_USER

-----------------------------------------------------------------------------
(* C8: a line other than "yes" ends the run with no side effect: the step     *)
(* that reads it starts no subprocess, leaves the output file and the         *)
(* databases as they were when the prompt was shown, and no step follows it.  *)
C8_AbortStep ==
    /\ pc # "aborted"
    /\ pc = "confirm" /\ confirm' \notin YesLines =>
          /\ pc' = "aborted"
          /\ file' = file
          /\ procs' = procs
          /\ applied' = applied

\* C8: every step of every run is an abort-safe step as defined above
C8_AbortHasNoSideEffects == [][C8_AbortStep]_vars

C8_Witness ==
    /\ pc = "aborted"
    /\ confirm = << "n", "o" >>
    /\ file.exists
    /\ Len(procs) = 1
    /\ applied = << >>

-----------------------------------------------------------------------------
(* C9: the output file is created on every run and never deleted or           *)
(* rewritten: from the end of the export step on it exists with the content   *)
(* the export step wrote, and the apply step is given that file.              *)
C9_FileStep ==
    /\ Exported' => file'.exists /\ file'.content = schema_sql'
    /\ Exported => file' = file /\ schema_sql' = schema_sql
    /\ pc' \in {"aborted", "done"} => file'.exists
    /\ Len(applied') > Len(applied) =>
          /\ applied'[Len(applied')].filename = OUTPUT_FILE
          /\ applied'[Len(applied')].script = file.content

\* C9: every step of every run keeps the exported file as defined above
C9_FileKept == [][C9_FileStep]_vars

C9_Witness ==
    /\ pc = "done"
    /\ file.exists
    /\ file.content = << "s" >>
    /\ Len(applied) = 1
    /\ applied[1].script = << "s" >>

-----------------------------------------------------------------------------
(* C10: after a non-zero exit of the apply invocation the excerpt printed is  *)
(* the first min(len(stderr), 2000) characters of its standard error, or      *)
(* "No error output" exactly when standard error is empty; after a zero exit  *)
(* only "Schema applied successfully!" is printed.                            *)
C10_Excerpt ==
    pc \in {"final", "done"} =>
        IF result.returncode = 0
        THEN ReportLines = << Text("Schema applied successfully!") >>
        ELSE /\ Len(ReportLines) = 2
             /\ ReportLines[1] = Text("Schema application had issues:")
             /\ LET e == ReportLines[2] IN
                /\ (e = Text("No error output")) <=> (result.stderr = << >>)
                /\ result.stderr # << >> =>
                      /\ e.text = "{}"
                      /\ Len(e.chars) = Min(Len(result.stderr), 2000)
                      /\ Len(e.chars) <= 2000
                      /\ IsPrefix(e.chars, result.stderr)
                      /\ Len(result.stderr) <= 2000 => e.chars = result.stderr

C10_Witness ==
    /\ pc = "final"
    /\ result.returncode # 0
    /\ Len(result.stderr) > 2000
    /\ Len(ReportLines[2].chars) = 2000

====
